---- MODULE Spec2Model ----
(***************************************************************************)
(* minijail0: the command-line front end of minijail (minijail0.c).        *)
(* One run of the program: parse_args() consumes the options that          *)
(* getopt_long() returns one at a time, runs its cross-option checks,      *)
(* classifies the target ELF and returns to main(), which hands the jail   *)
(* over to minijail_run() / minijail_run_no_preload().                      *)
(***************************************************************************)
EXTENDS Integers, Sequences, FiniteSets, TLC

\* Number of options getopt_long() may return in one run.
MaxArgs == 3

\* ElfType (elfparse.h), as used by parse_args() and main().
ELFERROR == "ELFERROR"
ELFSTATIC == "ELFSTATIC"
ELFDYNAMIC == "ELFDYNAMIC"
ElfTypes == {ELFERROR, ELFSTATIC, ELFDYNAMIC}

\* uid_t, gid_t and id_t are unsigned and 32 bits wide, int is signed and 32
\* bits wide.  An id is held as the int that has the same 32 bits: the id
\* itself below 2^31, the id minus 2^32 from there on.  This is the value a
\* conversion to int gives and the value printf's %d prints.
\* The id 4294967294 (2^32 - 2).
BigId == -2

\* getuid() / getgid(): the caller's real ids range over these.
Ids == {0, 1000, BigId}

\* Exit statuses minijail_wait() may report for the jailed child.
ChildStatuses == {0, 3}

\* exit_status of a process that has not terminated.
Running == -1

\* main()'s ret before minijail_wait() has returned (line 763).
NotWaited == -1

\* optarg is held as the sequence of the fields that its commas separate;
\* optarg == NULL, of an option given without an argument, as no field.
NoArg == <<>>

VARIABLES
    pc,                 \* position in parse_args() / main()
    optind,             \* getopt's index: options returned so far, plus one
    parsed,             \* the option characters getopt_long() has returned
    opt,                \* parse_args()'s opt: what getopt_long() returned last
    optarg,             \* getopt's optarg, as its fields between commas
    loc,                \* the locals of parse_args()
    elftype,            \* main()'s elftype, written through *elftype
    exit_immediately,   \* main()'s exit_immediately
    j,                  \* struct minijail: the libminijail calls made on it
    sys,                \* calls made outside libminijail: lookups, probes
    handoff,            \* which minijail_run*() call was made, if any
    ugid_calls,         \* the calls set_ugid_mapping() made, in order
    ret,                \* main()'s ret: what minijail_wait() returned
    exit_status,        \* the status the process terminated with
    err                 \* what the process printed before it stopped

vars == <<pc, optind, parsed, opt, optarg, loc, elftype, exit_immediately, j, sys, handoff,
          ugid_calls, ret, exit_status, err>>

\* parse_args(): initial values of the locals (lines 332-348).
InitLoc ==
    [use_seccomp_filter |-> 0, forward |-> 1, binding |-> 0,
     chroot |-> 0, pivot_root |-> 0, mount_ns |-> 0, skip_remount |-> 0,
     inherit_suppl_gids |-> 0, keep_suppl_gids |-> 0,
     caps |-> 0, ambient_caps |-> 0, seccomp |-> -1,
     uid |-> 0, gid |-> 0, uidmap |-> "NULL", gidmap |-> "NULL",
     set_uidmap |-> 0, set_gidmap |-> 0, log_to_stderr |-> 0]

\* main(): state on entry to parse_args() (lines 709-713).
Init ==
    /\ pc = "getopt"
    /\ optind = 1
    /\ parsed = {}
    /\ opt = "none"
    /\ optarg = NoArg
    /\ loc = InitLoc
    /\ elftype = ELFERROR
    /\ exit_immediately = 0
    /\ j = {}
    /\ sys = {}
    /\ handoff = "none"
    /\ ugid_calls = <<>>
    /\ ret = NotWaited
    /\ exit_status = Running
    /\ err = "none"

----------------------------------------------------------------------------
\* Building blocks of the actions.

\* Messages printed to stderr before exit(1) / return 1, by source line.
\* lines 377-378, 386-387
ErrSeccomp == "Do not use -s & -S together."
\* lines 423-424
ErrChrootAfterPivot == "Could not set chroot because '-P' was specified."
\* lines 442-444
ErrPivotAfterChroot == "Could not set pivot_root because '-C' was specified."
\* lines 482-483, 491-492
ErrSupplGids == "-y and -G are not compatible."
\* lines 623-624
ErrAmbient == "Can't set ambient capabilities (--ambient) without actually using capabilities (-c)."
\* lines 637-638
ErrBinding == "Bind mounts require a chroot, pivot_root, or  new mount namespace."
\* lines 647-648
ErrSkipRemount == "Can't skip marking mounts as MS_PRIVATE without mount namespaces."
\* lines 665-667: usage() because no program was named
ErrNoProgram == "usage: no program"
\* lines 680-682
ErrAccess == "Target program is not accessible."
\* lines 697-700
ErrStaticCaps == "Can't run statically-linked binaries with capabilities (-c) without also setting ambient capabilities. Try passing --ambient."
\* lines 558-559
ErrElfType == "ELF type must be 'static' or 'dynamic'."
\* line 728
ErrSetpgid == "setpgid(0, 0) failed"
\* line 748
ErrDlopen == "dlopen(): "
\* lines 753-755
ErrNotElf == "Target program is not a valid ELF file."

\* Exit() with the exit(1) left out after the message.
Exit_noexit(code, msg) ==
    /\ err' = msg
    /\ UNCHANGED <<pc, exit_status>>

\* exit(code) after printing msg.
Exit(code, msg) ==
    /\ pc' = "exited"
    /\ exit_status' = code
    /\ err' = msg

\* The option loop is running and argv holds another option (line 363).
InLoop == pc = "getopt" /\ optind <= MaxArgs

\* getopt_long() returns option o with argument arg (line 363).
Getopt(o, arg) ==
    /\ optind' = optind + 1
    /\ parsed' = parsed \cup {o}
    /\ opt' = o
    /\ optarg' = arg

\* The case falls through to `break`: back to getopt_long().
Break == UNCHANGED <<pc, exit_status, err>>

\* minijail_*(j, ...) calls.
Call(names) == j' = j \cup names

\* What the cases of the option loop leave alone, most of it main()'s.
main_vars == <<elftype, exit_immediately, sys, handoff, ugid_calls, ret>>

----------------------------------------------------------------------------
\* Option arguments.  A string argument is modelled by what the C library
\* calls applied to it return.

\* -u / -g specifiers.
IdSpecs == {"0", "1000", "1e3", "1.5", "", "alice", "nosuch"}

\* lookup_user() / lookup_group(): the one entry of the user and of the
\* group database; every other name is unknown.
pw_uid == 1000
pw_gid == 1000
gr_gid == 1000
Known(arg) == arg = "alice"

\* int uid = strtod(arg, &end) (lines 29, 50): the double that strtod()
\* returns, converted to int, which drops its fraction.
StrtodValue(arg) ==
    CASE arg = "1000" -> 1000
      [] arg = "1e3"  -> 1000
      [] arg = "1.5"  -> 1
      [] OTHER        -> 0

\* strtod(arg, &end): whether it consumed the whole string, i.e. !*end.
StrtodAtEnd(arg) == arg \in {"0", "1000", "1e3", "1.5", ""}

\* `!*end && *arg` (lines 30, 51): the specifier is taken as a number.
IsNumericSpec(arg) == StrtodAtEnd(arg) /\ arg # ""

\* strtoull(arg, &end, 16) leaves *end == 0 (lines 72-73, 84-85).
HexArgs == {"1", "zz"}
IsHex(arg) == arg = "1"

\* -b, -k and -R arguments, as the fields that their commas separate; an
\* empty argument is one empty field.
BindArgs == {<<"/a", "/b">>, <<"/a", "/b", "0">>, <<"/a", "/b", "1">>,
             <<"/a", "", "1">>, <<"/a">>, <<"">>}
MountArgs == {<<"none", "/mnt", "tmpfs">>, <<"none", "/mnt", "tmpfs", "e">>,
              <<"none", "/mnt", "tmpfs", "e", "size=1M">>, <<"none", "/mnt">>}
RlimitArgs == {<<"7", "10", "20">>, <<"7", "10">>}

\* Token() taking an empty field for a token.
Token_empty(fields, n) == IF n <= Len(fields) THEN fields[n] ELSE "NULL"

\* The n-th token of strtok(arg, ","), strtok(NULL, ","), ...: strtok()
\* skips empty fields, and returns NULL once the fields are used up
\* (lines 94-96, 109-111, 125-129).
Token(fields, n) ==
    LET tokens == SelectSeq(fields, LAMBDA f : f # "")
    IN IF n <= Len(tokens) THEN tokens[n] ELSE "NULL"

\* atoi(flags) of a -b argument (line 101).
Atoi(s) == IF s = "1" THEN 1 ELSE 0

\* strtoul(flags, NULL, 16) of a -k argument (line 135).
Strtoul16(s) == IF s = "e" THEN 14 ELSE 0

\* minijail_bind(j, src, dest, writeable), by its last argument.
BindCall(writeable) == "minijail_bind(writeable=" \o ToString(writeable) \o ")"

\* minijail_mount_with_data(j, src, dest, type, flags, data), by its last
\* two arguments.
MountCall(flags, data) ==
    "minijail_mount_with_data(flags=" \o ToString(flags) \o ",data="
    \o data \o ")"

\* -S: strlen(optarg) >= path_max (line 392).
FilterPaths == {"policy", "toolong"}
PathTooLong(p) == p = "toolong"

\* -t: absent, a size parse_size() accepts, one it rejects (line 464).
TmpSizes == {"NULL", "32M", "bogus"}

\* -T arguments (lines 553-561).
ElfArgs == {"static", "dynamic", "other"}

\* --logging arguments (lines 587-595).
LogArgs == {"syslog", "stderr", "other"}

\* -m / -M arguments: optarg absent, or a raw map.
MapArgs == {"NULL", "0 1000 1", "0 0 1"}

SetLoc(f, v) == loc' = [loc EXCEPT ![f] = v]

\* SeccompConflict() refusing any second seccomp option.
SeccompConflict_anymode(seccomp, mode) == seccomp # -1
\* PivotRootBlocked() testing pivot_root where chroot is meant.
PivotRootBlocked_wrongflag(l) == l.pivot_root # 0
\* KeepBlocked() testing keep_suppl_gids where inherit_suppl_gids is meant.
KeepBlocked_wrongflag(l) == l.keep_suppl_gids # 0

\* ChrootBlocked() letting -C pass after -P.
ChrootBlocked_never(l) == FALSE

\* Cross-option tests made inside the option loop.
\* line 376 / 385: the other seccomp mode was already chosen.
SeccompConflict(seccomp, mode) == seccomp # -1 /\ seccomp # mode
\* line 422: -C after -P.
ChrootBlocked(l) == l.pivot_root # 0
\* line 441: -P after -C.
PivotRootBlocked(l) == l.chroot # 0
\* line 481: -G after -y.
InheritBlocked(l) == l.keep_suppl_gids # 0
\* line 490: -y after -G.
KeepBlocked(l) == l.inherit_suppl_gids # 0

----------------------------------------------------------------------------
\* The option loop of parse_args(): one action per case of the switch.

\* case 'u': set_user() (lines 25-45, 366-368).
Case_u ==
    /\ InLoop
    /\ \E arg \in IdSpecs, changed \in BOOLEAN :
           /\ Getopt("u", <<arg>>)
           /\ IF IsNumericSpec(arg)
              THEN /\ SetLoc("uid", StrtodValue(arg))
                   /\ Call({"minijail_change_uid"})
                   /\ Break
              ELSE IF ~Known(arg)
              THEN /\ Exit(1, "Bad user")
                   /\ UNCHANGED <<loc, j>>
              ELSE /\ loc' = [loc EXCEPT !.uid = pw_uid, !.gid = pw_gid]
                   /\ IF changed
                      THEN Call({"minijail_change_user"}) /\ Break
                      ELSE Exit(1, "Bad user") /\ UNCHANGED j
           /\ sys' = IF IsNumericSpec(arg) THEN sys
                     ELSE sys \cup {"lookup_user"}
           /\ UNCHANGED <<elftype, exit_immediately, handoff, ugid_calls, ret>>

\* case 'g': set_group() (lines 47-66, 369-371).
Case_g ==
    /\ InLoop
    /\ \E arg \in IdSpecs, changed \in BOOLEAN :
           /\ Getopt("g", <<arg>>)
           /\ IF IsNumericSpec(arg)
              THEN /\ SetLoc("gid", StrtodValue(arg))
                   /\ Call({"minijail_change_gid"})
                   /\ Break
              ELSE IF ~Known(arg)
              THEN /\ Exit(1, "Bad group")
                   /\ UNCHANGED <<loc, j>>
              ELSE /\ SetLoc("gid", gr_gid)
                   /\ IF changed
                      THEN Call({"minijail_change_group"}) /\ Break
                      ELSE Exit(1, "Bad group") /\ UNCHANGED j
           /\ sys' = IF IsNumericSpec(arg) THEN sys
                     ELSE sys \cup {"lookup_group"}
           /\ UNCHANGED <<elftype, exit_immediately, handoff, ugid_calls, ret>>

\* Cases that make libminijail calls and touch nothing else:
\* 'n' 372, 'l' 404, 'L' 407, 'r' 477, 'N' 498, 'p' 501, 'I' 516, 'U' 520,
\* 'w' 563, 'Y' 566, 'V' 474.
PlainCalls ==
    [n |-> {"minijail_no_new_privs"},
     l |-> {"minijail_namespace_ipc"},
     L |-> {"minijail_log_seccomp_filter_failures"},
     r |-> {"minijail_remount_proc_readonly"},
     N |-> {"minijail_namespace_cgroups"},
     p |-> {"minijail_namespace_pids"},
     I |-> {"minijail_namespace_pids", "minijail_run_as_init"},
     U |-> {"minijail_namespace_user", "minijail_namespace_pids"},
     w |-> {"minijail_new_session_keyring"},
     Y |-> {"minijail_set_seccomp_filter_tsync"},
     V |-> {"minijail_namespace_enter_vfs"}]

Case_plain ==
    /\ InLoop
    /\ \E o \in DOMAIN PlainCalls :
           /\ Getopt(o, NoArg)
           /\ Call(PlainCalls[o])
           /\ Break
           /\ UNCHANGED <<loc, main_vars>>

\* case 's' (lines 375-383).
Case_s ==
    /\ InLoop
    /\ Getopt("s", NoArg)
    /\ IF SeccompConflict(loc.seccomp, 1)
       THEN Exit(1, ErrSeccomp) /\ UNCHANGED <<loc, j>>
       ELSE /\ SetLoc("seccomp", 1)
            /\ Call({"minijail_use_seccomp"})
            /\ Break
    /\ UNCHANGED main_vars

\* SeccompFilterCalls() parsing the policy file as soon as -S is seen.
SeccompFilterCalls_parse_now ==
    {"minijail_use_seccomp_filter", "minijail_parse_seccomp_filters"}

\* line 391: what case 'S' asks of the jail; the policy file is parsed
\* later (lines 652-659).
SeccompFilterCalls == {"minijail_use_seccomp_filter"}

\* case 'S' (lines 384-403).
Case_S ==
    /\ InLoop
    /\ \E path \in FilterPaths :
           /\ Getopt("S", <<path>>)
           /\ IF SeccompConflict(loc.seccomp, 2)
              THEN Exit(1, ErrSeccomp) /\ UNCHANGED <<loc, j>>
              ELSE /\ Call(SeccompFilterCalls)
                   /\ IF PathTooLong(path)
                      THEN /\ SetLoc("seccomp", 2)
                           /\ Exit(1, "Filter path is too long")
                      ELSE /\ loc' = [loc EXCEPT !.seccomp = 2,
                                                 !.use_seccomp_filter = 1]
                           /\ Break
           /\ UNCHANGED main_vars

\* case 'b': add_binding() (lines 92-105, 410-413).
Case_b ==
    /\ InLoop
    /\ \E arg \in BindArgs, ok \in BOOLEAN :
           LET src == Token(arg, 1)
               dest == Token(arg, 2)
               flags == Token(arg, 3)
           IN /\ Getopt("b", arg)
              /\ IF src = "NULL" \/ dest = "NULL"
                 THEN Exit(1, "Bad binding") /\ UNCHANGED <<loc, j>>
                 ELSE IF ~ok
                 THEN Exit(1, "minijail_bind failed") /\ UNCHANGED <<loc, j>>
                 ELSE /\ Call({BindCall(IF flags # "NULL" THEN Atoi(flags)
                                                         ELSE 0)})
                      /\ SetLoc("binding", 1)
                      /\ Break
              /\ UNCHANGED main_vars

\* case 'B': skip_securebits() (lines 68-78, 414-416).
Case_B ==
    /\ InLoop
    /\ \E arg \in HexArgs :
           /\ Getopt("B", <<arg>>)
           /\ IF ~IsHex(arg)
              THEN Exit(1, "Invalid securebit mask") /\ UNCHANGED j
              ELSE Call({"minijail_skip_setting_securebits"}) /\ Break
           /\ UNCHANGED <<loc, main_vars>>

\* case 'c': use_caps() (lines 80-90, 417-420).
Case_c ==
    /\ InLoop
    /\ \E arg \in HexArgs :
           /\ Getopt("c", <<arg>>)
           /\ SetLoc("caps", 1)
           /\ IF ~IsHex(arg)
              THEN Exit(1, "Invalid cap set") /\ UNCHANGED j
              ELSE Call({"minijail_use_caps"}) /\ Break
           /\ UNCHANGED main_vars

\* case 'C' (lines 421-432).
Case_C ==
    /\ InLoop
    /\ \E ok \in BOOLEAN :
           /\ Getopt("C", <<"/dir">>)
           /\ IF ChrootBlocked(loc)
              THEN /\ Exit(1, ErrChrootAfterPivot)
                   /\ UNCHANGED <<loc, j>>
              ELSE IF ~ok
              THEN Exit(1, "Could not set chroot") /\ UNCHANGED <<loc, j>>
              ELSE /\ Call({"minijail_enter_chroot"})
                   /\ SetLoc("chroot", 1)
                   /\ Break
           /\ UNCHANGED main_vars

\* case 'k': add_mount() (lines 123-140, 433-435).
Case_k ==
    /\ InLoop
    /\ \E arg \in MountArgs, ok \in BOOLEAN :
           LET src == Token(arg, 1)
               dest == Token(arg, 2)
               type == Token(arg, 3)
               flags == Token(arg, 4)
               data == Token(arg, 5)
           IN /\ Getopt("k", arg)
              /\ IF src = "NULL" \/ dest = "NULL" \/ type = "NULL"
                 THEN Exit(1, "Bad mount") /\ UNCHANGED j
                 ELSE IF ~ok
                 THEN Exit(1, "minijail_mount failed") /\ UNCHANGED j
                 ELSE /\ Call({MountCall(IF flags # "NULL"
                                         THEN Strtoul16(flags) ELSE 0, data)})
                      /\ Break
              /\ UNCHANGED <<loc, main_vars>>

\* case 'K' (lines 436-439).
Case_K ==
    /\ InLoop
    /\ Getopt("K", NoArg)
    /\ Call({"minijail_skip_remount_private"})
    /\ SetLoc("skip_remount", 1)
    /\ Break
    /\ UNCHANGED main_vars

\* case 'P' (lines 440-453).
Case_P ==
    /\ InLoop
    /\ \E ok \in BOOLEAN :
           /\ Getopt("P", <<"/dir">>)
           /\ IF PivotRootBlocked(loc)
              THEN /\ Exit(1, ErrPivotAfterChroot)
                   /\ UNCHANGED <<loc, j>>
              ELSE IF ~ok
              THEN Exit(1, "Could not set pivot_root") /\ UNCHANGED <<loc, j>>
              ELSE /\ Call({"minijail_enter_pivot_root", "minijail_namespace_vfs"})
                   /\ SetLoc("pivot_root", 1)
                   /\ Break
           /\ UNCHANGED main_vars

\* case 'f' (lines 454-460).
Case_f ==
    /\ InLoop
    /\ \E ok \in BOOLEAN :
           /\ Getopt("f", <<"/pid">>)
           /\ IF ~ok
              THEN Exit(1, "Could not prepare pid file path") /\ UNCHANGED j
              ELSE Call({"minijail_write_pid_file"}) /\ Break
           /\ UNCHANGED <<loc, main_vars>>

\* case 't' (lines 461-469).
Case_t ==
    /\ InLoop
    /\ \E size \in TmpSizes :
           /\ Getopt("t", IF size = "NULL" THEN NoArg ELSE <<size>>)
           /\ IF size = "bogus"
              THEN /\ Call({"minijail_namespace_vfs"})
                   /\ Exit(1, "Invalid /tmp tmpfs size")
              ELSE /\ Call({"minijail_namespace_vfs", "minijail_mount_tmp_size"})
                   /\ Break
           /\ UNCHANGED <<loc, main_vars>>

\* case 'v' (lines 470-473).
Case_v ==
    /\ InLoop
    /\ Getopt("v", NoArg)
    /\ Call({"minijail_namespace_vfs"})
    /\ SetLoc("mount_ns", 1)
    /\ Break
    /\ UNCHANGED main_vars

\* case 'G' (lines 480-488).
Case_G ==
    /\ InLoop
    /\ Getopt("G", NoArg)
    /\ IF InheritBlocked(loc)
       THEN Exit(1, ErrSupplGids) /\ UNCHANGED <<loc, j>>
       ELSE /\ Call({"minijail_inherit_usergroups"})
            /\ SetLoc("inherit_suppl_gids", 1)
            /\ Break
    /\ UNCHANGED main_vars

\* case 'y' (lines 489-497).
Case_y ==
    /\ InLoop
    /\ Getopt("y", NoArg)
    /\ IF KeepBlocked(loc)
       THEN Exit(1, ErrSupplGids) /\ UNCHANGED <<loc, j>>
       ELSE /\ Call({"minijail_keep_supplementary_gids"})
            /\ SetLoc("keep_suppl_gids", 1)
            /\ Break
    /\ UNCHANGED main_vars

\* case 'e' (lines 504-509).
Case_e ==
    /\ InLoop
    /\ \E has_arg \in BOOLEAN :
           /\ Getopt("e", IF has_arg THEN <<"/ns">> ELSE NoArg)
           /\ Call({IF has_arg THEN "minijail_namespace_enter_net"
                               ELSE "minijail_namespace_net"})
           /\ Break
           /\ UNCHANGED <<loc, main_vars>>

\* case 'i' (lines 510-512).
Case_i ==
    /\ InLoop
    /\ Getopt("i", NoArg)
    /\ exit_immediately' = 1
    /\ Break
    /\ UNCHANGED <<loc, j, elftype, sys, handoff, ugid_calls, ret>>

\* case 'H' (lines 513-515).
Case_H ==
    /\ InLoop
    /\ Getopt("H", NoArg)
    /\ Exit(1, "seccomp_filter_usage")
    /\ UNCHANGED <<loc, j, main_vars>>

\* NewMap() keeping the map of an earlier -m / -M when this one has none.
NewMap_keep_old(old, arg) == IF arg = "NULL" THEN old ELSE arg

\* lines 526-531, 535-540: the old map is dropped, and the new one is a
\* copy of optarg, or NULL when the option has no argument.
NewMap(old, arg) == arg

\* case 'm' (lines 524-532).
Case_m ==
    /\ InLoop
    /\ \E arg \in MapArgs :
           /\ Getopt("m", IF arg = "NULL" THEN NoArg ELSE <<arg>>)
           /\ loc' = [loc EXCEPT !.set_uidmap = 1,
                                 !.uidmap = NewMap(loc.uidmap, arg)]
           /\ sys' = IF loc.uidmap # "NULL" THEN sys \cup {"free(uidmap)"}
                     ELSE sys
           /\ Break
           /\ UNCHANGED <<j, elftype, exit_immediately, handoff, ugid_calls,
                          ret>>

\* case 'M' (lines 533-541).
Case_M ==
    /\ InLoop
    /\ \E arg \in MapArgs :
           /\ Getopt("M", IF arg = "NULL" THEN NoArg ELSE <<arg>>)
           /\ loc' = [loc EXCEPT !.set_gidmap = 1,
                                 !.gidmap = NewMap(loc.gidmap, arg)]
           /\ sys' = IF loc.gidmap # "NULL" THEN sys \cup {"free(gidmap)"}
                     ELSE sys
           /\ Break
           /\ UNCHANGED <<j, elftype, exit_immediately, handoff, ugid_calls,
                          ret>>

\* case 'a' (lines 542-548).
Case_a ==
    /\ InLoop
    /\ \E ok \in BOOLEAN :
           /\ Getopt("a", <<"table">>)
           /\ IF ~ok
              THEN Exit(1, "Could not set alt-syscall table") /\ UNCHANGED j
              ELSE Call({"minijail_use_alt_syscall"}) /\ Break
           /\ UNCHANGED <<loc, main_vars>>

\* case 'R': add_rlimit() (lines 107-121, 549-551).
Case_R ==
    /\ InLoop
    /\ \E arg \in RlimitArgs, ok \in BOOLEAN :
           LET type == Token(arg, 1)
               cur == Token(arg, 2)
               max == Token(arg, 3)
           IN /\ Getopt("R", arg)
              /\ IF type = "NULL" \/ cur = "NULL" \/ max = "NULL"
                 THEN Exit(1, "Bad rlimit") /\ UNCHANGED j
                 ELSE IF ~ok
                 THEN Exit(1, "minijail_rlimit failed") /\ UNCHANGED j
                 ELSE Call({"minijail_rlimit"}) /\ Break
              /\ UNCHANGED <<loc, main_vars>>

\* case 'T' (lines 552-562).
Case_T ==
    /\ InLoop
    /\ \E arg \in ElfArgs :
           /\ Getopt("T", <<arg>>)
           /\ IF arg = "static"
              THEN elftype' = ELFSTATIC /\ Break
              ELSE IF arg = "dynamic"
              THEN elftype' = ELFDYNAMIC /\ Break
              ELSE /\ Exit(1, ErrElfType)
                   /\ UNCHANGED elftype
           /\ UNCHANGED <<loc, j, exit_immediately, sys, handoff, ugid_calls,
                          ret>>

\* case 'z' (lines 569-571).
Case_z ==
    /\ InLoop
    /\ Getopt("z", NoArg)
    /\ SetLoc("forward", 0)
    /\ Break
    /\ UNCHANGED <<j, main_vars>>

\* Case_d() counting the mount namespace that -d asks for as one.
Case_d_mount_ns ==
    /\ InLoop
    /\ Getopt("d", NoArg)
    /\ Call({"minijail_namespace_vfs", "minijail_mount_dev"})
    /\ SetLoc("mount_ns", 1)
    /\ Break
    /\ UNCHANGED main_vars

\* case 'd' (lines 572-575).
Case_d ==
    /\ InLoop
    /\ Getopt("d", NoArg)
    /\ Call({"minijail_namespace_vfs", "minijail_mount_dev"})
    /\ Break
    /\ UNCHANGED <<loc, main_vars>>

\* case 128, --ambient (lines 577-580).
Case_ambient ==
    /\ InLoop
    /\ Getopt("ambient", NoArg)
    /\ SetLoc("ambient_caps", 1)
    /\ Call({"minijail_set_ambient_caps"})
    /\ Break
    /\ UNCHANGED main_vars

\* case 129, --uts[=name] (lines 581-585).
Case_uts ==
    /\ InLoop
    /\ \E has_arg \in BOOLEAN :
           /\ Getopt("uts", IF has_arg THEN <<"host">> ELSE NoArg)
           /\ Call(IF has_arg
                   THEN {"minijail_namespace_uts", "minijail_namespace_set_hostname"}
                   ELSE {"minijail_namespace_uts"})
           /\ Break
           /\ UNCHANGED <<loc, main_vars>>

\* case 130, --logging=<s> (lines 586-596).
Case_logging ==
    /\ InLoop
    /\ \E arg \in LogArgs :
           /\ Getopt("logging", <<arg>>)
           /\ IF arg = "syslog"
              THEN SetLoc("log_to_stderr", 0) /\ Break
              ELSE IF arg = "stderr"
              THEN SetLoc("log_to_stderr", 1) /\ Break
              ELSE /\ Exit(1, "--logger must be 'syslog' or 'stderr'")
                   /\ UNCHANGED loc
           /\ UNCHANGED <<j, main_vars>>

\* default: -h / --help, or an option getopt_long() does not know
\* (lines 597-600).
Case_default ==
    /\ InLoop
    /\ \E o \in {"h", "?"} :
           /\ Getopt(o, NoArg)
           /\ Exit(IF o = "h" THEN 0 ELSE 1, IF o = "h" THEN "help" ELSE "usage")
           /\ UNCHANGED <<loc, j, main_vars>>

----------------------------------------------------------------------------
\* parse_args() after the option loop.

\* Leave the current step of parse_args() / main() for step `next`.
Goto(next) == pc' = next /\ UNCHANGED <<exit_status, err>>

\* build_idmap(): snprintf(idmap, IDMAP_LEN, "%d %d 1", id, lowerid)
\* (lines 142-153).  %d prints the 32 bits of each id_t as a signed int.  The
\* longest output, two 11-character ints, fits IDMAP_LEN, so the error
\* branch is never taken.
build_idmap(id, lowerid) == ToString(id) \o " " \o ToString(lowerid) \o " 1"

\* One entry of ugid_calls: the call, its string argument, and the value it
\* returned (0 where the call returns nothing).
Called(call, arg, val) == [call |-> call, arg |-> arg, ret |-> val]

\* lines 187-188 and 205-206.
NamespaceCalls ==
    <<Called("minijail_namespace_user", "", 0),
      Called("minijail_namespace_pids", "", 0)>>

\* has_cap_setgid() (lines 155-180): CAP_SETGID effective, not effective, or
\* one of the libcap calls failed.
CapSetgidResults == {"set", "clear", "fail"}

\* AmbientWithoutCaps() with the two flags swapped.
AmbientWithoutCaps_swapped(l) == l.caps # 0 /\ l.ambient_caps = 0
\* BindWithoutRoot() without the mount namespace alternative.
BindWithoutRoot_nomountns(l) ==
    l.binding # 0 /\ ~(l.chroot # 0 \/ l.pivot_root # 0)
\* SkipRemountWithoutMountNs() taking -P for a mount namespace.
SkipRemountWithoutMountNs_pivot(l) ==
    l.skip_remount # 0 /\ l.mount_ns = 0 /\ l.pivot_root = 0
\* StaticWithCaps() testing for the wrong ELF type.
StaticWithCaps_dynamic(l, e) ==
    l.caps # 0 /\ e = ELFDYNAMIC /\ l.ambient_caps = 0

\* BindWithoutRoot() also refusing a bind next to a uid or gid map, as the
\* usage text of -m and -M has it.
BindWithoutRoot_maps(l) ==
    l.binding # 0
    /\ (~(l.chroot # 0 \/ l.pivot_root # 0 \/ l.mount_ns # 0)
        \/ l.set_uidmap # 0 \/ l.set_gidmap # 0)

\* The cross-option rules checked once every option was parsed.
\* line 622
AmbientWithoutCaps(l) == l.ambient_caps # 0 /\ l.caps = 0
\* line 636
BindWithoutRoot(l) ==
    l.binding # 0 /\ ~(l.chroot # 0 \/ l.pivot_root # 0 \/ l.mount_ns # 0)
\* line 646
SkipRemountWithoutMountNs(l) == l.skip_remount # 0 /\ l.mount_ns = 0
\* line 696
StaticWithCaps(l, e) == l.caps # 0 /\ e = ELFSTATIC /\ l.ambient_caps = 0

\* Where parse_args() continues after line 613: set_ugid_mapping() is entered
\* only for -m / -M (line 616), and each half of it only for its own flag
\* (lines 186, 204).
AfterLogging(l) ==
    IF l.set_uidmap # 0 THEN "uidmap"
    ELSE IF l.set_gidmap # 0 THEN "gidmap"
    ELSE "rules"

\* getopt_long() returns -1, with optarg reset as on every call, and the
\* loop ends (line 363); then
\* --logging=stderr is set up (lines 603-613).
EndOfOptions ==
    /\ pc = "getopt"
    /\ \E ok \in BOOLEAN :
           IF loc.log_to_stderr # 0
           THEN IF ok
                THEN Call({"minijail_preserve_fd"}) /\ Goto(AfterLogging(loc))
                ELSE Exit(1, "Could not preserve stderr") /\ UNCHANGED j
           ELSE Goto(AfterLogging(loc)) /\ UNCHANGED j
    /\ opt' = "-1"
    /\ optarg' = NoArg
    /\ UNCHANGED <<optind, parsed, loc, main_vars>>

\* set_ugid_mapping(), uid half (lines 186-203).
SetUidMapping ==
    /\ pc = "uidmap"
    /\ \E ruid \in Ids, ok \in BOOLEAN :
           LET built == loc.uidmap = "NULL"
               map == IF built THEN build_idmap(loc.uid, ruid) ELSE loc.uidmap
               ns == {"minijail_namespace_user", "minijail_namespace_pids"}
           IN /\ ugid_calls' =
                     ugid_calls \o NamespaceCalls
                     \o (IF built THEN <<Called("getuid", "", ruid)>> ELSE <<>>)
                     \o <<Called("minijail_uidmap", map, IF ok THEN 0 ELSE -1)>>
              /\ IF ok
                 THEN /\ Call(ns \cup {"minijail_uidmap(" \o map \o ")"})
                      /\ Goto(IF loc.set_gidmap # 0 THEN "gidmap" ELSE "rules")
                 ELSE /\ Call(ns)
                      /\ Exit(1, "Could not set uid map")
    /\ UNCHANGED <<optind, parsed, opt, optarg, loc, elftype, exit_immediately,
                   sys, handoff,
                   ret>>

\* NoCapSetgid() never asking for setgroups to be disabled.
NoCapSetgid_never(cap) == FALSE

\* line 215: !has_cap_setgid(), which is also what an unsupported CAP_SETGID
\* gives (lines 160-161).
NoCapSetgid(cap) == cap = "clear"

\* set_ugid_mapping(), gid half (lines 204-230).
SetGidMapping ==
    /\ pc = "gidmap"
    /\ \E rgid \in Ids, cap \in CapSetgidResults, ok \in BOOLEAN :
           LET built == loc.gidmap = "NULL"
               map == IF built THEN build_idmap(loc.gid, rgid) ELSE loc.gidmap
               ns == {"minijail_namespace_user", "minijail_namespace_pids"}
               nosetgroups ==
                   IF NoCapSetgid(cap)
                   THEN {"minijail_namespace_user_disable_setgroups"}
                   ELSE {}
               upto_cap ==
                   ugid_calls \o NamespaceCalls
                   \o (IF built THEN <<Called("getgid", "", rgid)>> ELSE <<>>)
           IN IF cap = "fail"
              THEN /\ ugid_calls' = upto_cap
                   /\ Call(ns)
                   /\ Exit(1, "Could not get capabilities")
              ELSE /\ ugid_calls' =
                          upto_cap
                          \o <<Called("has_cap_setgid", "",
                                      IF cap = "set" THEN 1 ELSE 0)>>
                          \o (IF NoCapSetgid(cap)
                              THEN <<Called("minijail_namespace_user_disable_setgroups",
                                            "", 0)>>
                              ELSE <<>>)
                          \o <<Called("minijail_gidmap", map,
                                      IF ok THEN 0 ELSE -1)>>
                   /\ IF ok
                      THEN /\ Call(ns \cup nosetgroups
                                    \cup {"minijail_gidmap(" \o map \o ")"})
                           /\ Goto("rules")
                      ELSE /\ Call(ns \cup nosetgroups)
                           /\ Exit(1, "Could not set gid map")
    /\ UNCHANGED <<optind, parsed, opt, optarg, loc, elftype, exit_immediately,
                   sys, handoff,
                   ret>>

\* lines 621-659: the ambient check, signal forwarding, the bind check, the
\* skip-remount check, in this order; then the seccomp policy is parsed.
CheckRules ==
    /\ pc = "rules"
    /\ IF AmbientWithoutCaps(loc)
       THEN /\ Exit(1, ErrAmbient)
            /\ UNCHANGED j
       ELSE IF BindWithoutRoot(loc) \/ SkipRemountWithoutMountNs(loc)
       THEN /\ IF loc.forward # 0
               THEN Call({"minijail_forward_signals"})
               ELSE UNCHANGED j
            /\ IF BindWithoutRoot(loc)
               THEN Exit(1, ErrBinding)
               ELSE Exit(1, ErrSkipRemount)
       ELSE /\ Call((IF loc.forward # 0
                     THEN {"minijail_forward_signals"} ELSE {})
                    \cup (IF loc.use_seccomp_filter # 0
                          THEN {"minijail_parse_seccomp_filters"} ELSE {}))
            /\ Goto("elftype")
    /\ UNCHANGED <<optind, parsed, opt, optarg, loc, main_vars>>

\* NeedsProbe() probing the target whatever -T said.
NeedsProbe_always(e) == TRUE

\* line 670: -T was not given, the target has to be probed.
NeedsProbe(e) == e = ELFERROR

\* lines 661-689: argc == optind means no program was named; without -T,
\* the target is probed.
ClassifyElf ==
    /\ pc = "elftype"
    /\ \E has_program, can_exec \in BOOLEAN, linkage \in ElfTypes :
           IF ~has_program
           THEN Exit(1, ErrNoProgram) /\ UNCHANGED <<sys, elftype>>
           ELSE IF NeedsProbe(elftype)
           THEN IF ~can_exec
                THEN /\ sys' = sys \cup {"access"}
                     /\ Exit(1, ErrAccess)
                     /\ UNCHANGED elftype
                ELSE /\ sys' = sys \cup {"access", "get_elf_linkage"}
                     /\ elftype' = linkage
                     /\ Goto("static_caps")
           ELSE Goto("static_caps") /\ UNCHANGED <<sys, elftype>>
    /\ UNCHANGED <<optind, parsed, opt, optarg, loc, j, exit_immediately,
                   handoff,
                   ugid_calls, ret>>

\* lines 691-704: the last check, then `return optind`.
CheckStaticCaps ==
    /\ pc = "static_caps"
    /\ IF StaticWithCaps(loc, elftype)
       THEN Exit(1, ErrStaticCaps)
       ELSE Goto("main")
    /\ UNCHANGED <<optind, parsed, opt, optarg, loc, j, main_vars>>

----------------------------------------------------------------------------
\* main() after parse_args() returned.

\* Strategy() using the preload for every valid ELF.
Strategy_always_preload(e) ==
    IF e \in {ELFSTATIC, ELFDYNAMIC} THEN "minijail_run" ELSE "none"
\* Strategy() with the two branches swapped.
Strategy_swapped(e) ==
    IF e = ELFSTATIC THEN "minijail_run"
    ELSE IF e = ELFDYNAMIC THEN "minijail_run_no_preload"
    ELSE "none"

\* lines 733-757: which minijail_run*() the ELF type selects.
Strategy(e) ==
    IF e = ELFSTATIC THEN "minijail_run_no_preload"
    ELSE IF e = ELFDYNAMIC THEN "minijail_run"
    ELSE "none"

\* DlopenFailed() taking every dlopen() for a success.
DlopenFailed_ignored(handle) == FALSE

\* line 746: !dlopen(PRELOADPATH, ...).
DlopenFailed(handle) == handle = "NULL"

\* lines 726-750: setpgid(0, 0) succeeds, fails with EPERM or fails
\* otherwise; then a static target is handed to minijail_run_no_preload(),
\* and for a dynamic one the preload library is opened with dlopen().
Run ==
    /\ pc = "main"
    /\ \E pgid \in {"ok", "EPERM", "other"}, handle \in {"NULL", "handle"} :
           IF pgid = "other"
           THEN /\ Exit(1, ErrSetpgid)
                /\ UNCHANGED <<sys, handoff>>
           ELSE IF Strategy(elftype) = "minijail_run_no_preload"
           THEN /\ handoff' = "minijail_run_no_preload"
                /\ Goto("wait")
                /\ UNCHANGED sys
           ELSE IF Strategy(elftype) = "minijail_run"
           THEN /\ sys' = sys \cup (IF handle = "NULL"
                                     THEN {"dlopen", "dlopen:NULL"}
                                     ELSE {"dlopen"})
                /\ IF DlopenFailed(handle)
                   THEN Exit(1, ErrDlopen)
                   ELSE Goto("preload")
                /\ UNCHANGED handoff
           ELSE /\ Exit(1, ErrNotElf)
                /\ UNCHANGED <<sys, handoff>>
    /\ UNCHANGED <<optind, parsed, opt, optarg, loc, j, elftype,
                   exit_immediately,
                   ugid_calls, ret>>

\* line 751: minijail_run(), once dlopen() is past.
RunPreload ==
    /\ pc = "preload"
    /\ handoff' = "minijail_run"
    /\ Goto("wait")
    /\ UNCHANGED <<optind, parsed, opt, optarg, loc, j, elftype,
                   exit_immediately, sys,
                   ugid_calls, ret>>

\* ExitsImmediately() waiting for the child whatever -i said.
ExitsImmediately_never(e) == FALSE

\* line 759: -i was given.
ExitsImmediately(e) == e # 0

\* lines 759-767: return 0 at once for -i, otherwise return what
\* minijail_wait() returns.
Wait ==
    /\ pc = "wait"
    /\ \E status \in ChildStatuses :
           /\ pc' = "exited"
           /\ IF ExitsImmediately(exit_immediately)
              THEN exit_status' = 0 /\ UNCHANGED ret
              ELSE ret' = status /\ exit_status' = status
    /\ UNCHANGED <<optind, parsed, opt, optarg, loc, j, elftype,
                   exit_immediately, sys,
                   handoff, ugid_calls, err>>

Next ==
    \/ Case_u \/ Case_g \/ Case_plain \/ Case_s \/ Case_S \/ Case_b
    \/ Case_B \/ Case_c \/ Case_C \/ Case_k \/ Case_K \/ Case_P \/ Case_f
    \/ Case_t \/ Case_v \/ Case_G \/ Case_y \/ Case_e \/ Case_i \/ Case_H
    \/ Case_m \/ Case_M \/ Case_a \/ Case_R \/ Case_T \/ Case_z \/ Case_d
    \/ Case_ambient \/ Case_uts \/ Case_logging \/ Case_default
    \/ EndOfOptions \/ SetUidMapping \/ SetGidMapping \/ CheckRules
    \/ ClassifyElf \/ CheckStaticCaps \/ Run \/ RunPreload \/ Wait

Spec == Init /\ [][Next]_vars

TypeOK ==
    /\ pc \in {"getopt", "uidmap", "gidmap", "rules", "elftype",
               "static_caps", "main", "preload", "wait", "exited"}
    /\ optind \in 1..(MaxArgs + 1)
    /\ elftype \in ElfTypes
    /\ exit_immediately \in {0, 1}
    /\ handoff \in {"none", "minijail_run", "minijail_run_no_preload"}
    /\ exit_status \in {Running, 0, 1} \cup ChildStatuses
    /\ loc.seccomp \in {-1, 1, 2}
    /\ ret \in {NotWaited} \cup ChildStatuses

----------------------------------------------------------------------------
\* Properties.

\* One of the minijail_run*() calls was made.
Launched == handoff # "none"

\* The option set passed every check of lines 621-650: parse_args() went on
\* to the target program, or ended on something that comes after them.
Validated ==
    \/ pc \in {"elftype", "static_caps", "main", "preload", "wait"}
    \/ Launched
    \/ err \in {ErrNoProgram, ErrAccess, ErrStaticCaps, ErrSetpgid, ErrDlopen,
                ErrNotElf}

\* The process ended without a launch: with status 1, or with the status 0
\* of the usage text that -h asks for.
EndedUnlaunched ==
    pc = "exited" => handoff = "none" /\ (exit_status = 1 \/ err = "help")

\* C1: a minijail_run*() call is made only once every check has passed: no
\* error was reported, the options parsed break none of the cross-option
\* rules, the ELF type is static or dynamic and the static-with-capabilities
\* rule does not apply.  A reported error ends the process with a non-zero
\* status and without a launch.
C1_AllOrNothing ==
    /\ Launched =>
          /\ pc \in {"wait", "exited"}
          /\ err = "none"
          /\ parsed \cap {"h", "H", "?"} = {}
          /\ ~({"s", "S"} \subseteq parsed)
          /\ ~({"C", "P"} \subseteq parsed)
          /\ ~({"G", "y"} \subseteq parsed)
          /\ ("ambient" \in parsed => "c" \in parsed)
          /\ ("b" \in parsed => parsed \cap {"C", "P", "v"} # {})
          /\ ("K" \in parsed => "v" \in parsed)
          /\ elftype \in {ELFSTATIC, ELFDYNAMIC}
          /\ ~(elftype = ELFSTATIC /\ "c" \in parsed /\ "ambient" \notin parsed)
    /\ err \notin {"none", "help"} =>
          pc = "exited" /\ exit_status # 0 /\ ~Launched

\* C1 witness: a launch after three options, a bind and -c among them.
C1_Witness ==
    /\ Launched
    /\ optind > 3
    /\ {"b", "c"} \subseteq parsed

\* C2: with -c given, the ELF type (from -T or from the probe) static and
\* --ambient not given, no minijail_run*() call is ever made and main() is
\* never reached; the process ends with status 1.  The one end with status 0
\* is the usage text of a later -h, printed inside the option loop.
C2_RejectRule ==
    (loc.caps # 0 /\ elftype = ELFSTATIC /\ loc.ambient_caps = 0) =>
        /\ handoff = "none"
        /\ pc \notin {"main", "preload", "wait"}
        /\ EndedUnlaunched

\* C2 witness: the rule fired on a probed target, other options present.
C2_Witness ==
    /\ err = ErrStaticCaps
    /\ exit_status = 1
    /\ "get_elf_linkage" \in sys
    /\ optind > 2

\* The scenario of C3: the options are -c and --ambient (and possibly the -T
\* that makes the ELF type static), and the ELF type is static.
C3_Scenario ==
    /\ {"c", "ambient"} \subseteq parsed
    /\ parsed \subseteq {"c", "ambient", "T"}
    /\ loc.caps # 0
    /\ loc.ambient_caps # 0
    /\ elftype = ELFSTATIC

\* C3 as stated: in the scenario the launch is made with minijail_run()
\* (preload), neither rejected nor made with minijail_run_no_preload().
C3_AsStated ==
    C3_Scenario =>
        /\ err # ErrStaticCaps
        /\ handoff # "minijail_run_no_preload"
        /\ (pc = "wait" => handoff = "minijail_run")

\* C3, amended: in the scenario the launch is made with
\* minijail_run_no_preload() (direct exec): it is not rejected by the
\* static-with-capabilities rule, the preload library is never opened and
\* minijail_run() is never called.
C3_DirectExec ==
    C3_Scenario =>
        /\ err # ErrStaticCaps
        /\ handoff # "minijail_run"
        /\ "dlopen" \notin sys
        /\ (pc = "wait" => handoff = "minijail_run_no_preload")

\* C3 witness: the scenario, launched.
C3_Witness ==
    /\ C3_Scenario
    /\ pc = "wait"
    /\ handoff = "minijail_run_no_preload"

\* C4: a launch is made with minijail_run() exactly when the ELF type is
\* dynamic and with minijail_run_no_preload() exactly when it is static;
\* main() waits for a child only after a launch; with an ELF type that is
\* neither, no launch is made and the process ends with status 1.
C4_StrategyByLinkage ==
    /\ Launched =>
          /\ (handoff = "minijail_run") = (elftype = ELFDYNAMIC)
          /\ (handoff = "minijail_run_no_preload") = (elftype = ELFSTATIC)
    /\ pc = "wait" => Launched
    /\ elftype = ELFERROR => ~Launched /\ pc # "wait"
    /\ err = ErrNotElf => elftype = ELFERROR /\ exit_status = 1
    /\ ("get_elf_linkage" \in sys /\ elftype = ELFERROR /\ pc = "exited") =>
          exit_status = 1

\* C4 witness: a probed dynamic target launched with the preload.
C4_Witness ==
    /\ handoff = "minijail_run"
    /\ elftype = ELFDYNAMIC
    /\ "get_elf_linkage" \in sys

\* C5: once getopt has returned both -C and -P, in either order, the process
\* has ended with status 1 and without a launch; the chroot and pivot_root
\* flags are never both set, nor both requested of the jail.
C5_ChrootPivotExclusive ==
    /\ {"C", "P"} \subseteq parsed =>
          pc = "exited" /\ exit_status = 1 /\ handoff = "none"
    /\ ~(loc.chroot # 0 /\ loc.pivot_root # 0)
    /\ ~({"minijail_enter_chroot", "minijail_enter_pivot_root"} \subseteq j)

\* C5 witness: -P refused after -C, a third option parsed as well.
C5_Witness ==
    /\ err = ErrPivotAfterChroot
    /\ loc.chroot # 0
    /\ optind > 3
    /\ Cardinality(parsed) = 3

\* C6: an option set with -b and none of -C, -P, -v is never validated and
\* ends without a launch; the bind rule rejects only such sets; a set with
\* -b and one of the three that breaks no other rule is not rejected by any
\* rule; a validated set with a binding has a chroot, a pivot_root or a
\* mount namespace.  The verdict depends on the set of options alone.
C6_BindPrerequisite ==
    /\ ("b" \in parsed /\ parsed \cap {"C", "P", "v"} = {}) =>
          ~Validated /\ EndedUnlaunched
    /\ err = ErrBinding =>
          "b" \in parsed /\ parsed \cap {"C", "P", "v"} = {}
    /\ ( /\ "b" \in parsed
         /\ parsed \cap {"C", "P", "v"} # {}
         /\ ("ambient" \in parsed => "c" \in parsed)
         /\ ("K" \in parsed => "v" \in parsed) ) =>
          err \notin {ErrAmbient, ErrBinding, ErrSkipRemount}
    /\ (Validated /\ loc.binding # 0) =>
          (loc.chroot # 0 \/ loc.pivot_root # 0 \/ loc.mount_ns # 0)

\* C6 witness: a bind with no chroot, pivot_root or mount namespace, refused
\* with other options around it.
C6_Witness ==
    /\ err = ErrBinding
    /\ exit_status = 1
    /\ optind > 3

\* C7: once getopt has returned both -s and -S, in either order, the
\* process has ended with status 1 and without a launch; the seccomp rule
\* rejects nothing else, a repeated -s or -S in particular; the jail is
\* asked for seccomp mode 1, for a seccomp filter, or for neither.
C7_SeccompExclusive ==
    /\ {"s", "S"} \subseteq parsed =>
          pc = "exited" /\ exit_status = 1 /\ handoff = "none"
    /\ err = ErrSeccomp => {"s", "S"} \subseteq parsed
    /\ loc.seccomp \in {-1, 1, 2}
    /\ (loc.seccomp = 1) = ("minijail_use_seccomp" \in j)
    /\ (loc.seccomp = 2) = ("minijail_use_seccomp_filter" \in j)

\* C7 witness: -S, -S again, then -s, which is refused.
C7_Witness ==
    /\ err = ErrSeccomp
    /\ loc.seccomp = 2
    /\ parsed = {"s", "S"}
    /\ optind = 4

\* C8: a validated option set with --ambient has -c; a set with --ambient
\* and no -c is never validated and ends without a launch; the ambient rule
\* rejects no set that has -c, whichever of the two came first.
C8_AmbientNeedsCaps ==
    /\ (Validated /\ loc.ambient_caps # 0) => loc.caps # 0
    /\ ("ambient" \in parsed /\ "c" \notin parsed) =>
          ~Validated /\ EndedUnlaunched
    /\ err = ErrAmbient => "ambient" \in parsed /\ "c" \notin parsed

\* C8 witness: --ambient without -c, refused after the whole parse.
C8_Witness ==
    /\ err = ErrAmbient
    /\ exit_status = 1
    /\ optind > 3

\* C9: once getopt has returned both -G and -y, in either order, the process
\* has ended with status 1 and without a launch; the two flags are never both
\* set, nor both requested of the jail.
C9_SupplGidsExclusive ==
    /\ {"G", "y"} \subseteq parsed =>
          pc = "exited" /\ exit_status = 1 /\ handoff = "none"
    /\ ~(loc.inherit_suppl_gids # 0 /\ loc.keep_suppl_gids # 0)
    /\ ~({"minijail_inherit_usergroups", "minijail_keep_supplementary_gids"}
           \subseteq j)

\* C9 witness: -G refused after -y, a third option parsed as well.
C9_Witness ==
    /\ err = ErrSupplGids
    /\ loc.keep_suppl_gids # 0
    /\ Cardinality(parsed) = 3

\* C10: a validated option set with -K has -v; a set with -K and no -v is
\* never validated and ends without a launch, wherever -K stands.
C10_SkipRemountNeedsMountNs ==
    /\ (Validated /\ loc.skip_remount # 0) => loc.mount_ns # 0
    /\ ("K" \in parsed /\ "v" \notin parsed) =>
          ~Validated /\ EndedUnlaunched
    /\ err = ErrSkipRemount => "K" \in parsed /\ "v" \notin parsed

\* C10 witness: -K without a mount namespace, refused after the whole parse.
C10_Witness ==
    /\ err = ErrSkipRemount
    /\ exit_status = 1
    /\ optind > 3

\* C11: once a valid -T was given, neither access() nor get_elf_linkage()
\* is ever called on the target, the ELF type stays what the last -T set
\* from the end of the option loop on, and that type is the one the
\* static-with-capabilities rule and the choice of minijail_run*() use; the
\* ELF type changes outside the option loop only through the probe, which
\* runs only when no -T was given.
C11_OverridePrecedence ==
    [][ /\ "T" \in parsed' =>
              /\ sys' \cap {"access", "get_elf_linkage"} = {}
              /\ (pc' \in {"static_caps", "main", "preload", "wait"} =>
                     elftype' \in {ELFSTATIC, ELFDYNAMIC})
              /\ (err' = ErrStaticCaps => elftype' = ELFSTATIC)
              /\ (handoff' = "minijail_run" => elftype' = ELFDYNAMIC)
              /\ (handoff' = "minijail_run_no_preload" => elftype' = ELFSTATIC)
              /\ err' # ErrNotElf
        /\ ("T" \in parsed /\ pc # "getopt") => elftype' = elftype
        /\ (pc # "getopt" /\ elftype' # elftype) =>
              /\ "T" \notin parsed
              /\ elftype = ELFERROR
              /\ {"access", "get_elf_linkage"} \subseteq sys'
        /\ sys' \cap {"access", "get_elf_linkage"} # {} => "T" \notin parsed
      ]_vars

\* C11 witness: -c and -T static given, rejected by the
\* static-with-capabilities rule without the target being touched.
C11_Witness ==
    /\ "T" \in parsed
    /\ err = ErrStaticCaps
    /\ sys = {}

\* r as five decimal digits, for r in 0 .. 99999.
Pad5(r) ==
    (IF r < 10 THEN "0000" ELSE IF r < 100 THEN "000"
     ELSE IF r < 1000 THEN "00" ELSE IF r < 10000 THEN "0" ELSE "")
    \o ToString(r)

\* The decimal numeral of an id: of the id itself, not of the int that has
\* its 32 bits.  For a held value below 0 the id is that value plus 2^32,
\* computed in two halves that fit an int.
Decimal(id) ==
    IF id >= 0
    THEN ToString(id)
    ELSE LET t == (id + 2147483647) + 1
             lo == (t % 100000) + 83648
             hi == (t \div 100000) + 21474 + (lo \div 100000)
         IN ToString(hi) \o Pad5(lo % 100000)

\* The result of the env call `name` that precedes entry i of ugid_calls.
ResultBefore(name, i) ==
    LET k == CHOOSE k \in 1..i : ugid_calls[k].call = name
    IN ugid_calls[k].ret

\* C12: when -m (resp. -M) was given without a value, the map handed to
\* minijail_uidmap() (resp. minijail_gidmap()) is "<target id> <real id> 1":
\* the numeral of uid (resp. gid), which -u / -g chose and which is 0
\* otherwise, then the numeral of what getuid() (resp. getgid()) returned.
C12_DefaultIdMap ==
    \A i \in DOMAIN ugid_calls :
        /\ (ugid_calls[i].call = "minijail_uidmap" /\ loc.uidmap = "NULL") =>
              ugid_calls[i].arg =
                  Decimal(loc.uid) \o " "
                  \o Decimal(ResultBefore("getuid", i)) \o " 1"
        /\ (ugid_calls[i].call = "minijail_gidmap" /\ loc.gidmap = "NULL") =>
              ugid_calls[i].arg =
                  Decimal(loc.gid) \o " "
                  \o Decimal(ResultBefore("getgid", i)) \o " 1"

\* C12 witness: the example of the claim, real uid 1000 and no -u, where
\* the map is "0 1000 1".
C12_Witness ==
    /\ loc.uidmap = "NULL"
    /\ loc.uid = 0
    /\ \E i \in DOMAIN ugid_calls :
           /\ ugid_calls[i].call = "minijail_uidmap"
           /\ ugid_calls[i].arg = "0 1000 1"
           /\ ResultBefore("getuid", i) = 1000

\* C13: when minijail_gidmap() is called after has_cap_setgid() returned 0,
\* minijail_namespace_user_disable_setgroups() was called before it and
\* after the capability test; when has_cap_setgid() returned 1, or when
\* only the uid map is applied (no -M), that call is never made.
C13_DisableSetgroups ==
    LET disable == "minijail_namespace_user_disable_setgroups"
        Made(name) == \E k \in DOMAIN ugid_calls : ugid_calls[k].call = name
    IN /\ \A i \in DOMAIN ugid_calls :
              ugid_calls[i].call = "minijail_gidmap" =>
                  IF ResultBefore("has_cap_setgid", i) = 0
                  THEN \E k \in 1..(i - 1) :
                          /\ ugid_calls[k].call = disable
                          /\ \E c \in 1..(k - 1) :
                                 ugid_calls[c].call = "has_cap_setgid"
                  ELSE ~Made(disable)
       /\ loc.set_gidmap = 0 => ~Made(disable) /\ ~Made("minijail_gidmap")
       /\ Made(disable) <=> disable \in j
       /\ "M" \notin parsed => disable \notin j

\* C13 witness: both maps applied without CAP_SETGID, the gid map set after
\* setgroups was disabled.
C13_Witness ==
    /\ Len(ugid_calls) > 2
    /\ ugid_calls[Len(ugid_calls)].call = "minijail_gidmap"
    /\ ugid_calls[Len(ugid_calls)].ret = 0
    /\ ugid_calls[Len(ugid_calls) - 1].call =
           "minijail_namespace_user_disable_setgroups"
    /\ \E k \in DOMAIN ugid_calls : ugid_calls[k].call = "minijail_uidmap"
    /\ pc = "rules"

\* C14: minijail_run() is called only after dlopen() of the preload library
\* returned a handle, in a step of its own that follows the dlopen(); when
\* dlopen() returns NULL the process ends with status 1 and minijail_run()
\* is never called; dlopen() is called only for a dynamic target, never on
\* the way to minijail_run_no_preload().
C14_PreloadCheck ==
    /\ handoff = "minijail_run" =>
          "dlopen" \in sys /\ "dlopen:NULL" \notin sys
    /\ pc = "preload" =>
          /\ "dlopen" \in sys
          /\ "dlopen:NULL" \notin sys
          /\ handoff = "none"
    /\ "dlopen:NULL" \in sys =>
          /\ pc = "exited"
          /\ exit_status = 1
          /\ handoff = "none"
          /\ err = ErrDlopen
    /\ "dlopen" \in sys => elftype = ELFDYNAMIC
    /\ handoff = "minijail_run_no_preload" => "dlopen" \notin sys

\* C14 witness: dlopen() failed for a dynamic target that passed every check
\* of parse_args().
C14_Witness ==
    /\ "dlopen:NULL" \in sys
    /\ err = ErrDlopen
    /\ elftype = ELFDYNAMIC
    /\ optind > 1

\* The libminijail calls that apply an option to the jail.
ApplyCalls ==
    {"minijail_bind(writeable=0)", "minijail_bind(writeable=1)",
     "minijail_rlimit", "minijail_use_caps",
     "minijail_enter_chroot", "minijail_enter_pivot_root",
     "minijail_namespace_vfs", "minijail_namespace_pids",
     "minijail_namespace_net", "minijail_namespace_ipc",
     "minijail_namespace_uts", "minijail_namespace_cgroups",
     "minijail_namespace_user", "minijail_use_seccomp",
     "minijail_use_seccomp_filter"}
    \cup {MountCall(f, d) : f \in {0, 14}, d \in {"NULL", "size=1M"}}

\* The libminijail calls parse_args() makes after the option loop only.
DeferredCalls ==
    {"minijail_preserve_fd", "minijail_forward_signals",
     "minijail_parse_seccomp_filters",
     "minijail_namespace_user_disable_setgroups"}

\* C15 as stated: while parse_args() is in its option loop, none of the calls
\* that apply an option to the jail has been made.
C15_AsStated == pc = "getopt" => j \cap ApplyCalls = {}

\* C15, amended: the call that applies an option to the jail is made when
\* the option is parsed, inside the option loop; what waits for the end of
\* the loop is the uid and gid maps, stderr preservation, signal forwarding
\* and the parsing of the seccomp policy; while the loop runs the target is
\* not touched and nothing is launched.
C15_ApplyWhileParsing ==
    /\ pc = "getopt" =>
          /\ j \cap DeferredCalls = {}
          /\ ugid_calls = <<>>
          /\ sys \cap {"access", "get_elf_linkage", "dlopen"} = {}
          /\ handoff = "none"
    /\ loc.binding # 0 =>
          j \cap {"minijail_bind(writeable=0)", "minijail_bind(writeable=1)"}
              # {}
    /\ loc.chroot # 0 => "minijail_enter_chroot" \in j
    /\ loc.pivot_root # 0 => "minijail_enter_pivot_root" \in j
    /\ loc.mount_ns # 0 => "minijail_namespace_vfs" \in j
    /\ loc.seccomp = 1 => "minijail_use_seccomp" \in j
    /\ loc.seccomp = 2 => "minijail_use_seccomp_filter" \in j
    /\ (loc.caps # 0 /\ pc = "getopt") => "minijail_use_caps" \in j

\* C15 witness: a bind and a new mount namespace applied to the jail while
\* another option is still to be parsed.
C15_Witness ==
    /\ pc = "getopt"
    /\ optind = 3
    /\ {"minijail_bind(writeable=0)", "minijail_namespace_vfs"} \subseteq j

\* The messages of the rules that are checked inside the option loop, and
\* of those checked after it.
LoopRuleErrs ==
    {ErrSeccomp, ErrChrootAfterPivot, ErrPivotAfterChroot, ErrSupplGids}
TailRuleErrs == {ErrAmbient, ErrBinding, ErrSkipRemount}

\* C16 as stated: no step of the option loop reports the violation of a
\* cross-option rule; a violation is reported only once getopt_long() has
\* returned every option.
C16_AsStated ==
    [][(err' # err /\ err' \in LoopRuleErrs \cup TailRuleErrs) =>
           pc # "getopt"]_vars

\* C16, amended: the ambient, bind and skip-remount rules are evaluated
\* after the option loop, so a malformed option that follows a violation of
\* one of them is what the process fails with; the chroot / pivot_root,
\* seccomp and supplementary-gids exclusions are evaluated in the loop, by
\* the case of the second option of the pair, so the process fails with the
\* violation whatever would follow.
C16_RuleEvaluation ==
    [][ /\ (err' # err /\ err' \in TailRuleErrs) =>
              pc = "rules" /\ optind' = optind
        /\ (err' # err /\ err' \in LoopRuleErrs) =>
              pc = "getopt" /\ optind' = optind + 1
        /\ pc' = "getopt" => err' = "none"
        /\ {"C", "P"} \subseteq parsed' =>
              err' \in {ErrChrootAfterPivot, ErrPivotAfterChroot}
        /\ {"s", "S"} \subseteq parsed' => err' = ErrSeccomp
        /\ {"G", "y"} \subseteq parsed' => err' = ErrSupplGids
        /\ ( /\ {"C", "P"} \subseteq parsed' \/ {"s", "S"} \subseteq parsed'
                 \/ {"G", "y"} \subseteq parsed'
             /\ parsed' # parsed ) =>
              pc = "getopt" /\ pc' = "exited" /\ exit_status' = 1
      ]_vars

\* C16 witness: --ambient without -c, then -K without -v, then a malformed
\* -b: the process fails with the parse error of -b.
C16_Witness ==
    /\ parsed = {"ambient", "K", "b"}
    /\ err = "Bad binding"
    /\ exit_status = 1
    /\ loc.ambient_caps # 0
    /\ loc.skip_remount # 0

\* C17 as stated: a process that has ended has status 0 after a launch with
\* -i, status 1 after a failure, and in every other case the status that
\* minijail_wait() returned for the jailed child.
C17_AsStated ==
    pc = "exited" =>
        IF Launched /\ exit_immediately # 0 THEN exit_status = 0
        ELSE IF err \notin {"none", "help"} THEN exit_status = 1
        ELSE Launched /\ ret \in ChildStatuses /\ exit_status = ret

\* C17, amended: as stated, and a process that -h ended has printed the
\* usage text and has status 0, without a launch and without a child.
\* With -i, minijail_wait() is not called.
C17_ExitStatus ==
    /\ pc = "exited" =>
          IF Launched /\ exit_immediately # 0
          THEN exit_status = 0 /\ ret = NotWaited
          ELSE IF err \notin {"none", "help"}
          THEN exit_status = 1 /\ ~Launched
          ELSE IF err = "help"
          THEN exit_status = 0 /\ ~Launched /\ "h" \in parsed
          ELSE Launched /\ ret \in ChildStatuses /\ exit_status = ret
    /\ err \notin {"none", "help"} => pc = "exited" /\ exit_status = 1
    /\ pc # "exited" => exit_status = Running /\ ret = NotWaited

\* C17 witness: a launch with -i given, ended with status 0 without
\* waiting.
C17_Witness ==
    /\ pc = "exited"
    /\ Launched
    /\ exit_immediately # 0
    /\ exit_status = 0
    /\ ret = NotWaited

\* The fields of an option argument that are not empty.
NonEmpty(fields) == SelectSeq(fields, LAMBDA f : f # "")

\* The step is the case of option o of the option loop.
CaseOf(o) == pc = "getopt" /\ optind' = optind + 1 /\ opt' = o

\* The case ends the process with status 1 and message msg, and has made
\* no libminijail call.
Rejected(msg) ==
    pc' = "exited" /\ exit_status' = 1 /\ err' = msg /\ j' = j /\ loc' = loc

\* The case has made the libminijail call `call` and goes on to the next
\* option, or the call failed and ended the process with message msg.
Accepted(call, msg) ==
    \/ pc' = "getopt" /\ err' = "none" /\ call \in j'
    \/ pc' = "exited" /\ exit_status' = 1 /\ err' = msg /\ j' = j

Numerals == {"0", "1000", "1e3", "1.5"}
Tenfold(spec) ==
    CASE spec = "0"    -> 0
      [] spec = "1000" -> 10000
      [] spec = "1e3"  -> 10000
      [] spec = "1.5"  -> 15

\* C19: the case of -u (of -g) with a specifier that is a numeral calls no
\* lookup and leaves in uid (gid) the number the numeral denotes; with any
\* other specifier it calls lookup_user() (lookup_group()), and ends the
\* process with status 1 when the name is unknown.
C19_NumericSpecifier ==
    [][ /\ CaseOf("u") =>
              IF optarg'[1] \in Numerals
              THEN /\ sys' = sys
                   /\ 10 * loc'.uid = Tenfold(optarg'[1])
                   /\ pc' = "getopt"
              ELSE /\ "lookup_user" \in sys'
                   /\ optarg'[1] # "alice" =>
                          pc' = "exited" /\ exit_status' = 1
        /\ CaseOf("g") =>
              IF optarg'[1] \in Numerals
              THEN /\ sys' = sys
                   /\ 10 * loc'.gid = Tenfold(optarg'[1])
                   /\ pc' = "getopt"
              ELSE /\ "lookup_group" \in sys'
                   /\ optarg'[1] # "alice" =>
                          pc' = "exited" /\ exit_status' = 1
      ]_vars

\* C19 witness: the example of the claim, -u 1000 resolved to uid 1000 with
\* no lookup made.
C19_Witness ==
    /\ opt = "u"
    /\ optarg = <<"1000">>
    /\ loc.uid = 1000
    /\ sys = {}
    /\ pc = "getopt"

\* The entries of ugid_calls that are calls of `name`.
CallsOf(name) == SelectSeq(ugid_calls, LAMBDA c : c.call = name)

\* C20: every -m (-M) replaces the map of the earlier ones by its own
\* argument, or by none when it has no argument, and nothing else changes
\* it; minijail_uidmap() (minijail_gidmap()) is called at most once, and
\* once when parse_args() gets past set_ugid_mapping() after a -m (-M):
\* with the argument of the last -m (-M), or, when that one had none, with
\* the map built from getuid() (getgid()).
C20_LastMapWins ==
    [][ /\ CaseOf("m") =>
              /\ loc'.set_uidmap = 1
              /\ loc'.uidmap = IF optarg' = NoArg THEN "NULL" ELSE optarg'[1]
        /\ CaseOf("M") =>
              /\ loc'.set_gidmap = 1
              /\ loc'.gidmap = IF optarg' = NoArg THEN "NULL" ELSE optarg'[1]
        /\ loc'.uidmap # loc.uidmap => CaseOf("m")
        /\ loc'.gidmap # loc.gidmap => CaseOf("M")
        /\ Len(CallsOf("minijail_uidmap")') <= 1
        /\ Len(CallsOf("minijail_gidmap")') <= 1
        /\ \A i \in DOMAIN ugid_calls' :
              LET c == ugid_calls'[i]
                  built(env) == \E k \in 1..(i - 1) : ugid_calls'[k].call = env
              IN /\ c.call = "minijail_uidmap" =>
                       IF loc'.uidmap = "NULL"
                       THEN built("getuid")
                       ELSE ~built("getuid") /\ c.arg = loc'.uidmap
                 /\ c.call = "minijail_gidmap" =>
                       IF loc'.gidmap = "NULL"
                       THEN built("getgid")
                       ELSE ~built("getgid") /\ c.arg = loc'.gidmap
        /\ (pc' \in {"rules", "elftype", "static_caps", "main", "preload",
                      "wait"}) =>
              /\ Len(CallsOf("minijail_uidmap")') =
                     (IF "m" \in parsed' THEN 1 ELSE 0)
              /\ Len(CallsOf("minijail_gidmap")') =
                     (IF "M" \in parsed' THEN 1 ELSE 0)
      ]_vars

\* C20 witness: a -m with a map, then a -m without one, and the map built
\* from getuid() is the one, and the only one, handed to minijail_uidmap().
C20_Witness ==
    /\ "free(uidmap)" \in sys
    /\ loc.uidmap = "NULL"
    /\ Len(CallsOf("minijail_uidmap")) = 1
    /\ CallsOf("minijail_uidmap")[1].arg = "0 1000 1"
    /\ CallsOf("getuid")[1].ret = 1000
    /\ pc = "rules"

\* C21: when parse_args() reaches its checks with a bind that is not
\* writeable and a uid or gid map both applied to the jail, it fails only
\* for what the ambient, bind and skip-remount rules refuse, and otherwise
\* goes on to the target program without an error; the bind rule refuses
\* only a jail that has no chroot, no pivot_root and no new mount namespace.
C21_BindWithMapAccepted ==
    [][ /\ ( /\ pc = "rules"
             /\ "minijail_bind(writeable=0)" \in j
             /\ Len(CallsOf("minijail_uidmap"))
                    + Len(CallsOf("minijail_gidmap")) > 0 ) =>
              IF loc.ambient_caps # 0 /\ loc.caps = 0
              THEN err' = ErrAmbient
              ELSE IF loc.chroot = 0 /\ loc.pivot_root = 0 /\ loc.mount_ns = 0
              THEN err' = ErrBinding
              ELSE IF loc.skip_remount # 0 /\ loc.mount_ns = 0
              THEN err' = ErrSkipRemount
              ELSE pc' = "elftype" /\ err' = "none"
        /\ ( /\ err' = ErrBinding
             /\ err = "none" ) =>
              loc.chroot = 0 /\ loc.pivot_root = 0 /\ loc.mount_ns = 0
      ]_vars

\* C21 witness: -b without a writeable field, -m and -v, launched.
C21_Witness ==
    /\ Launched
    /\ parsed = {"b", "m", "v"}
    /\ "minijail_bind(writeable=0)" \in j
    /\ "minijail_bind(writeable=1)" \notin j
    /\ Len(CallsOf("minijail_uidmap")) = 1
    /\ CallsOf("minijail_uidmap")[1].ret = 0
    /\ err = "none"

\* C22: mount_ns is set by the case of -v and by nothing else, so it is set
\* exactly when -v was given, whatever -P, -t, -d and -V asked of the jail;
\* a jail with -K and no -v is refused by the skip-remount rule, and a jail
\* with a bind and none of -C, -P and -v by the bind rule, when the checks
\* before that rule pass, also when minijail_namespace_vfs() or
\* minijail_namespace_enter_vfs() was called for it.
C22_MountNsOnlyByV ==
    [][ /\ loc'.mount_ns # loc.mount_ns => CaseOf("v")
        /\ (loc'.mount_ns # 0) = ("v" \in parsed')
        /\ ( /\ pc = "rules"
             /\ loc.skip_remount # 0
             /\ "v" \notin parsed
             /\ ~(loc.ambient_caps # 0 /\ loc.caps = 0)
             /\ (loc.binding # 0 => loc.chroot # 0 \/ loc.pivot_root # 0) ) =>
              pc' = "exited" /\ exit_status' = 1 /\ err' = ErrSkipRemount
        /\ ( /\ pc = "rules"
             /\ loc.binding # 0
             /\ parsed \cap {"C", "P", "v"} = {}
             /\ ~(loc.ambient_caps # 0 /\ loc.caps = 0) ) =>
              pc' = "exited" /\ exit_status' = 1 /\ err' = ErrBinding
      ]_vars

\* C22 witness: -K and -P without -v, refused by the skip-remount rule
\* although -P has asked the jail for a mount namespace.
C22_Witness ==
    /\ err = ErrSkipRemount
    /\ exit_status = 1
    /\ {"K", "P"} \subseteq parsed
    /\ "v" \notin parsed
    /\ loc.pivot_root # 0
    /\ "minijail_namespace_vfs" \in j

====
